---- MODULE Spec2Model ----
(***************************************************************************)
(* Model of package analyzer (sales-analysis/internal/analyzer):           *)
(*   ParseCSV    - reads a CSV file row by row, skips malformed rows with  *)
(*                 a warning, returns the valid SaleRecords or an error.   *)
(*   AnalyzeData - one pass over the records (count, revenue, per-product  *)
(*                 quantity), then a range over the per-product map to     *)
(*                 find the product with the greatest summed quantity.     *)
(*                                                                         *)
(* A Go string is modelled as a sequence of one-character strings, so that *)
(* strconv.Atoi and strconv.ParseFloat are computed from the characters.   *)
(* A float64 is modelled as a record: an integer value or NaN.             *)
(***************************************************************************)
EXTENDS Integers, Sequences, FiniteSets, TLC

VARIABLES
    fileExists,        \* whether os.Open(filePath) succeeds
    file,              \* the physical lines of the file
    pc,                \* position in ParseCSV: "open", "header", "loop", "returned"
    pos,               \* csv.Reader: index of the next physical line to read
    lineNumber,        \* ParseCSV's loop variable lineNumber
    records,           \* ParseCSV's local slice records
    diags,             \* the warnings printed so far
    ret,               \* ParseCSV's return values
    closeCount,        \* number of file.Close() calls made
    input,             \* AnalyzeData's argument records
    apc,               \* position in AnalyzeData: "start", "pass1", "pass2", "returned"
    idx,               \* index of the next record of the first loop
    productQuantities, \* AnalyzeData's map productQuantities
    remaining,         \* keys of productQuantities the range loop has not visited yet
    order,             \* keys of productQuantities in the order the range loop visited them
    result             \* AnalyzeData's result

parseVars == <<fileExists, file, pc, pos, lineNumber, records, diags, ret, closeCount>>
analyzeVars == <<input, apc, idx, productQuantities, remaining, order, result>>
vars == <<fileExists, file, pc, pos, lineNumber, records, diags, ret, closeCount,
          input, apc, idx, productQuantities, remaining, order, result>>

(***************************************************************************)
(* Bounds of the model.                                                    *)
(***************************************************************************)
MaxLines == 4
MaxRecords == 3

(***************************************************************************)
(* float64, restricted to integer values and NaN.                          *)
(***************************************************************************)
F(n) == [nan |-> FALSE, v |-> n]
NaN == [nan |-> TRUE, v |-> 0]
FMul(a, b) == IF a.nan \/ b.nan THEN NaN ELSE F(a.v * b.v)
FAdd(a, b) == IF a.nan \/ b.nan THEN NaN ELSE F(a.v + b.v)

(***************************************************************************)
(* strconv.Atoi and strconv.ParseFloat on a string given as characters.    *)
(***************************************************************************)
Digits == {"0", "1", "2", "3", "4", "5", "6", "7", "8", "9"}

DigitVal(c) ==
    CASE c = "0" -> 0 [] c = "1" -> 1 [] c = "2" -> 2 [] c = "3" -> 3
      [] c = "4" -> 4 [] c = "5" -> 5 [] c = "6" -> 6 [] c = "7" -> 7
      [] c = "8" -> 8 [] c = "9" -> 9

RECURSIVE DigitsVal(_)
DigitsVal(s) ==
    IF s = <<>> THEN 0
    ELSE 10 * DigitsVal(SubSeq(s, 1, Len(s) - 1)) + DigitVal(s[Len(s)])

AllDigits(s) == Len(s) > 0 /\ \A i \in 1..Len(s) : s[i] \in Digits

\* the digits of s after an optional leading sign
Unsigned(s) == IF Len(s) > 0 /\ s[1] \in {"+", "-"} THEN Tail(s) ELSE s

Sign(s) == IF Len(s) > 0 /\ s[1] = "-" THEN -1 ELSE 1

Atoi(s) ==
    IF AllDigits(Unsigned(s))
    THEN [ok |-> TRUE, val |-> Sign(s) * DigitsVal(Unsigned(s))]
    ELSE [ok |-> FALSE, val |-> 0]

NaNText == <<"N", "a", "N">>

ParseFloat(s) ==
    IF Unsigned(s) = NaNText THEN [ok |-> TRUE, val |-> NaN]
    ELSE IF AllDigits(Unsigned(s))
    THEN [ok |-> TRUE, val |-> F(Sign(s) * DigitsVal(Unsigned(s)))]
    ELSE [ok |-> FALSE, val |-> F(0)]

(***************************************************************************)
(* The file: a sequence of physical lines.  A line is blank, a row of      *)
(* comma-separated fields, or a line whose framing the reader rejects      *)
(* (such as a bare quote in an unquoted field).                            *)
(***************************************************************************)
Blank == [kind |-> "blank", fields |-> <<>>]
Bad == [kind |-> "bad", fields |-> <<>>]
Row(fields) == [kind |-> "row", fields |-> fields]

DateText == <<"d">>

LineKinds ==
    { Row(<<DateText, <<"A">>, <<"2">>, <<"5">>>>),
      Row(<<DateText, <<"B">>, <<"-", "1">>, NaNText>>),
      Row(<<DateText, <<"A">>, <<"T", "w", "o">>, <<"5">>>>),
      Row(<<DateText, <<"B">>, <<"1", "0">>, <<"x">>>>),
      Row(<<DateText, <<"A">>, <<"5">>, <<"1", "0">>, <<"E">>>>),
      Row(<<DateText, <<"A">>, <<"5">>>>),
      Blank,
      Bad }

RECURSIVE SeqsUpTo(_, _)
SeqsUpTo(S, n) ==
    IF n = 0 THEN {<<>>}
    ELSE LET shorter == SeqsUpTo(S, n - 1)
         IN  shorter \cup {Append(s, x) : s \in shorter, x \in S}

Files == SeqsUpTo(LineKinds, MaxLines)

(***************************************************************************)
(* csv.Reader.Read with FieldsPerRecord = -1, from physical line p on:     *)
(* blank lines are skipped; the first non-blank line is delivered as a     *)
(* record or reported as an error; io.EOF when no line is left.            *)
(* at is the physical line the outcome comes from, next the new position.  *)
(***************************************************************************)
RECURSIVE ReaderRead(_, _)
ReaderRead(f, p) ==
    IF p > Len(f) THEN [out |-> "EOF", row |-> <<>>, at |-> p, next |-> p]
    ELSE IF f[p].kind = "blank" THEN ReaderRead(f, p + 1)
    ELSE IF f[p].kind = "bad" THEN [out |-> "error", row |-> <<>>, at |-> p, next |-> p + 1]
    ELSE [out |-> "row", row |-> f[p].fields, at |-> p, next |-> p + 1]

(***************************************************************************)
(* ParseCSV.                                                               *)
(***************************************************************************)
SaleRecord(row, quantity, price) ==
    [Date |-> row[1], Product |-> row[2], Quantity |-> quantity, Price |-> price]

\* mutant of FieldCountOK: only rows that are too short are skipped
FieldCountAtLeast(row) == Len(row) >= 4

\* len(row) != 4 is the skip condition
FieldCountOK(row) == Len(row) = 4

\* mutant of DeferredClose: the close is never registered
NoDeferredClose(n) == n

\* the deferred file.Close(), run when ParseCSV returns after a successful open
DeferredClose(n) == n + 1

\* return values; at is the physical line a read error came from (0 when none)
NotReturned == [records |-> <<>>, isNil |-> TRUE, err |-> "none", errLine |-> 0, at |-> 0]
OpenErrorReturn == [records |-> <<>>, isNil |-> TRUE, err |-> "open", errLine |-> 0, at |-> 0]
HeaderErrorReturn(r) ==
    [records |-> <<>>, isNil |-> TRUE, err |-> "header", errLine |-> 0, at |-> r.at]
\* mutant of CriticalErrorReturn: the rows accepted so far are returned with the error
PartialOnCritical(recs, line, r) ==
    [records |-> recs, isNil |-> FALSE, err |-> "critical", errLine |-> line, at |-> r.at]
CriticalErrorReturn(recs, line, r) ==
    [records |-> <<>>, isNil |-> TRUE, err |-> "critical", errLine |-> line, at |-> r.at]
SuccessReturn(recs) ==
    [records |-> recs, isNil |-> FALSE, err |-> "none", errLine |-> 0, at |-> 0]

\* a warning: the line number printed, the reason, and the physical line of the row
Warning(line, reason, r) == [line |-> line, reason |-> reason, at |-> r.at]

OpenFail ==
    /\ pc = "open"
    /\ ~fileExists
    /\ ret' = OpenErrorReturn
    /\ pc' = "returned"
    /\ UNCHANGED <<fileExists, file, pos, lineNumber, records, diags, closeCount>>
    /\ UNCHANGED analyzeVars

OpenOK ==
    /\ pc = "open"
    /\ fileExists
    /\ pos' = 1
    /\ records' = <<>>
    /\ pc' = "header"
    /\ UNCHANGED <<fileExists, file, lineNumber, diags, ret, closeCount>>
    /\ UNCHANGED analyzeVars

HeaderError ==
    /\ pc = "header"
    /\ LET r == ReaderRead(file, pos)
       IN  /\ r.out = "error"
           /\ pos' = r.next
           /\ ret' = HeaderErrorReturn(r)
    /\ closeCount' = DeferredClose(closeCount)
    /\ pc' = "returned"
    /\ UNCHANGED <<fileExists, file, lineNumber, records, diags>>
    /\ UNCHANGED analyzeVars

\* the header is read and dropped; io.EOF here is not an error
HeaderSkipped ==
    /\ pc = "header"
    /\ LET r == ReaderRead(file, pos)
       IN  /\ r.out # "error"
           /\ pos' = r.next
    /\ lineNumber' = 2
    /\ pc' = "loop"
    /\ UNCHANGED <<fileExists, file, records, diags, ret, closeCount>>
    /\ UNCHANGED analyzeVars

RowEOF ==
    /\ pc = "loop"
    /\ LET r == ReaderRead(file, pos)
       IN  /\ r.out = "EOF"
           /\ pos' = r.next
    /\ ret' = SuccessReturn(records)
    /\ closeCount' = DeferredClose(closeCount)
    /\ pc' = "returned"
    /\ UNCHANGED <<fileExists, file, lineNumber, records, diags>>
    /\ UNCHANGED analyzeVars

RowCritical ==
    /\ pc = "loop"
    /\ LET r == ReaderRead(file, pos)
       IN  /\ r.out = "error"
           /\ pos' = r.next
           /\ ret' = CriticalErrorReturn(records, lineNumber, r)
    /\ closeCount' = DeferredClose(closeCount)
    /\ pc' = "returned"
    /\ UNCHANGED <<fileExists, file, lineNumber, records, diags>>
    /\ UNCHANGED analyzeVars

SkipFieldCount ==
    /\ pc = "loop"
    /\ LET r == ReaderRead(file, pos)
       IN  /\ r.out = "row"
           /\ ~FieldCountOK(r.row)
           /\ pos' = r.next
           /\ diags' = Append(diags, Warning(lineNumber, "fields", r))
    /\ lineNumber' = lineNumber + 1
    /\ UNCHANGED <<fileExists, file, pc, records, ret, closeCount>>
    /\ UNCHANGED analyzeVars

SkipQuantity ==
    /\ pc = "loop"
    /\ LET r == ReaderRead(file, pos)
       IN  /\ r.out = "row"
           /\ FieldCountOK(r.row)
           /\ ~Atoi(r.row[3]).ok
           /\ pos' = r.next
           /\ diags' = Append(diags, Warning(lineNumber, "quantity", r))
    /\ lineNumber' = lineNumber + 1
    /\ UNCHANGED <<fileExists, file, pc, records, ret, closeCount>>
    /\ UNCHANGED analyzeVars

SkipPrice ==
    /\ pc = "loop"
    /\ LET r == ReaderRead(file, pos)
       IN  /\ r.out = "row"
           /\ FieldCountOK(r.row)
           /\ Atoi(r.row[3]).ok
           /\ ~ParseFloat(r.row[4]).ok
           /\ pos' = r.next
           /\ diags' = Append(diags, Warning(lineNumber, "price", r))
    /\ lineNumber' = lineNumber + 1
    /\ UNCHANGED <<fileExists, file, pc, records, ret, closeCount>>
    /\ UNCHANGED analyzeVars

AcceptRow ==
    /\ pc = "loop"
    /\ LET r == ReaderRead(file, pos)
       IN  /\ r.out = "row"
           /\ FieldCountOK(r.row)
           /\ Atoi(r.row[3]).ok
           /\ ParseFloat(r.row[4]).ok
           /\ pos' = r.next
           /\ records' = Append(records,
                  SaleRecord(r.row, Atoi(r.row[3]).val, ParseFloat(r.row[4]).val))
    /\ lineNumber' = lineNumber + 1
    /\ UNCHANGED <<fileExists, file, pc, diags, ret, closeCount>>
    /\ UNCHANGED analyzeVars

(***************************************************************************)
(* AnalyzeData.                                                            *)
(***************************************************************************)
EmptyMap == [k \in {} |-> 0]

\* reading a Go map: the zero value for a key that is absent
MapGet(m, k) == IF k \in DOMAIN m THEN m[k] ELSE 0

MapPut(m, k, v) == [x \in DOMAIN m \cup {k} |-> IF x = k THEN v ELSE m[x]]

\* mutant of InitialResult: the maximum starts below every quantity
InitialResultNegativeMax(recs) ==
    [TotalTransactions |-> Len(recs), TotalRevenue |-> F(0),
     MostPopularProduct |-> <<>>, MaxQuantitySoldUnits |-> -1]

\* the result literal AnalyzeData starts from; MostPopularProduct is the zero string
InitialResult(recs) ==
    [TotalTransactions |-> Len(recs), TotalRevenue |-> F(0),
     MostPopularProduct |-> <<>>, MaxQuantitySoldUnits |-> 0]

\* mutant of AddRevenue: the price is added without the quantity
AddRevenuePriceOnly(revenue, record) == FAdd(revenue, record.Price)

\* result.TotalRevenue += float64(record.Quantity) * record.Price
AddRevenue(revenue, record) == FAdd(revenue, FMul(F(record.Quantity), record.Price))

\* productQuantities[record.Product] += record.Quantity
AddQuantity(m, record) ==
    MapPut(m, record.Product, MapGet(m, record.Product) + record.Quantity)

\* mutant of Exceeds: the comparison is inverted
ExceedsInverted(totalQuantity, max) == totalQuantity < max

\* the test of the second loop: totalQuantity > result.MaxQuantitySoldUnits
Exceeds(totalQuantity, max) == totalQuantity > max

Products == {<<>>, <<"A">>, <<"B">>}
Quantities == {-1, 0, 2}
Prices == {F(2), F(3)}

RecordKinds ==
    {[Date |-> DateText, Product |-> p, Quantity |-> q, Price |-> c] :
        p \in Products, q \in Quantities, c \in Prices}

Inputs == SeqsUpTo(RecordKinds, MaxRecords)

AnalyzeStart ==
    /\ apc = "start"
    /\ result' = InitialResult(input)
    /\ productQuantities' = EmptyMap
    /\ idx' = 1
    /\ apc' = "pass1"
    /\ UNCHANGED <<input, remaining, order>>
    /\ UNCHANGED parseVars

\* one iteration of the first loop
Accumulate ==
    /\ apc = "pass1"
    /\ idx <= Len(input)
    /\ result' = [result EXCEPT !.TotalRevenue = AddRevenue(@, input[idx])]
    /\ productQuantities' = AddQuantity(productQuantities, input[idx])
    /\ idx' = idx + 1
    /\ UNCHANGED <<input, apc, remaining, order>>
    /\ UNCHANGED parseVars

\* the first loop ends and the range over the map begins
BeginRange ==
    /\ apc = "pass1"
    /\ idx > Len(input)
    /\ remaining' = DOMAIN productQuantities
    /\ apc' = "pass2"
    /\ UNCHANGED <<input, idx, productQuantities, order, result>>
    /\ UNCHANGED parseVars

\* one iteration of the range loop, on any key not yet visited: the test succeeds
RangeReplace ==
    /\ apc = "pass2"
    /\ \E product \in remaining :
         /\ Exceeds(productQuantities[product], result.MaxQuantitySoldUnits)
         /\ result' = [result EXCEPT !.MaxQuantitySoldUnits = productQuantities[product],
                                     !.MostPopularProduct = product]
         /\ remaining' = remaining \ {product}
         /\ order' = Append(order, product)
    /\ UNCHANGED <<input, apc, idx, productQuantities>>
    /\ UNCHANGED parseVars

\* one iteration of the range loop, on any key not yet visited: the test fails
RangeKeep ==
    /\ apc = "pass2"
    /\ \E product \in remaining :
         /\ ~Exceeds(productQuantities[product], result.MaxQuantitySoldUnits)
         /\ remaining' = remaining \ {product}
         /\ order' = Append(order, product)
    /\ UNCHANGED <<input, apc, idx, productQuantities, result>>
    /\ UNCHANGED parseVars

AnalyzeReturn ==
    /\ apc = "pass2"
    /\ remaining = {}
    /\ apc' = "returned"
    /\ UNCHANGED <<input, idx, productQuantities, remaining, order, result>>
    /\ UNCHANGED parseVars

AnalyzeIdle ==
    /\ apc = "start"
    /\ idx = 1
    /\ productQuantities = EmptyMap
    /\ remaining = {}
    /\ order = <<>>
    /\ result = InitialResult(<<>>)

ParseIdle ==
    /\ fileExists = FALSE
    /\ file = <<>>
    /\ pc = "open"
    /\ pos = 1
    /\ lineNumber = 0
    /\ records = <<>>
    /\ diags = <<>>
    /\ ret = NotReturned
    /\ closeCount = 0

\* ParseCSV called on a path that may not exist, or on any file
Init ==
    /\ fileExists \in BOOLEAN
    /\ file \in (IF fileExists THEN Files ELSE {<<>>})
    /\ pc = "open"
    /\ pos = 1
    /\ lineNumber = 0
    /\ records = <<>>
    /\ diags = <<>>
    /\ ret = NotReturned
    /\ closeCount = 0
    /\ input = <<>>
    /\ AnalyzeIdle

Next ==
    \/ OpenFail
    \/ OpenOK
    \/ HeaderError
    \/ HeaderSkipped
    \/ RowEOF
    \/ RowCritical
    \/ SkipFieldCount
    \/ SkipQuantity
    \/ SkipPrice
    \/ AcceptRow

Spec == Init /\ [][Next]_vars

\* AnalyzeData called on any record sequence
InitAnalyze ==
    /\ ParseIdle
    /\ input \in Inputs
    /\ AnalyzeIdle

NextAnalyze ==
    \/ AnalyzeStart
    \/ Accumulate
    \/ BeginRange
    \/ RangeReplace
    \/ RangeKeep
    \/ AnalyzeReturn

SpecAnalyze == InitAnalyze /\ [][NextAnalyze]_vars

(***************************************************************************)
(* Reference definitions for the properties, computed from the whole file  *)
(* or the whole record sequence rather than step by step.                  *)
(***************************************************************************)
NotBlank(l) == l.kind # "blank"

\* the rows after the header: every non-blank line but the first
DataRows(f) == IF SelectSeq(f, NotBlank) = <<>> THEN <<>> ELSE Tail(SelectSeq(f, NotBlank))

ValidRow(l) ==
    /\ Len(l.fields) = 4
    /\ Atoi(l.fields[3]).ok
    /\ ParseFloat(l.fields[4]).ok

ExpectedRecords(f) ==
    LET valid == SelectSeq(DataRows(f), ValidRow)
    IN  [i \in 1..Len(valid) |->
            [Date |-> valid[i].fields[1], Product |-> valid[i].fields[2],
             Quantity |-> Atoi(valid[i].fields[3]).val,
             Price |-> ParseFloat(valid[i].fields[4]).val]]

HasBadLine(f) == \E i \in 1..Len(f) : f[i].kind = "bad"

KeysOf(recs) == {recs[i].Product : i \in 1..Len(recs)}

RECURSIVE SumFor(_, _)
SumFor(p, recs) ==
    IF recs = <<>> THEN 0
    ELSE (IF Head(recs).Product = p THEN Head(recs).Quantity ELSE 0) + SumFor(p, Tail(recs))

Totals(recs) == {SumFor(p, recs) : p \in KeysOf(recs)}

\* the greatest summed quantity of a product; 0 for no records
TrueMax(recs) ==
    IF recs = <<>> THEN 0
    ELSE CHOOSE m \in Totals(recs) : \A n \in Totals(recs) : n <= m

RECURSIVE SumRevenue(_)
SumRevenue(recs) ==
    IF recs = <<>> THEN 0
    ELSE SumRevenue(SubSeq(recs, 1, Len(recs) - 1))
         + recs[Len(recs)].Quantity * recs[Len(recs)].Price.v

AllPositive(recs) == \A i \in 1..Len(recs) : recs[i].Quantity > 0

NonNegative(recs) == \A i \in 1..Len(recs) : recs[i].Quantity >= 0

\* positions of the traversal whose product's total equals the final maximum
Hits ==
    {i \in 1..Len(order) : productQuantities[order[i]] = result.MaxQuantitySoldUnits}

Least(S) == CHOOSE i \in S : \A j \in S : i <= j

(***************************************************************************)
(* ParseCSV properties (specification Spec).                               *)
(***************************************************************************)

\* C1: when the file opens and no read fails, ParseCSV returns a nil error and
\* exactly the data rows with 4 fields, an integer quantity and a float price,
\* in input order; every other data row is skipped.
C1_ValidRowsInOrder ==
    (pc = "returned" /\ fileExists /\ ~HasBadLine(file)) =>
        /\ ret.err = "none"
        /\ ~ret.isNil
        /\ ret.records = ExpectedRecords(file)

\* C1 witness: a successful return with two different accepted rows and a skipped one
C1_Witness ==
    /\ pc = "returned"
    /\ fileExists
    /\ ~HasBadLine(file)
    /\ Len(ret.records) = 2
    /\ ret.records[1] # ret.records[2]
    /\ Len(diags) >= 1

\* C2: ParseCSV returns an error exactly when the open fails or a read (header or
\* row) fails with something other than io.EOF, and then it returns nil records,
\* whatever was accepted before.
C2_ErrorReturnsNoRecords ==
    pc = "returned" =>
        /\ (ret.err # "none") <=> (~fileExists \/ HasBadLine(file))
        /\ (ret.err # "none") => (ret.isNil /\ ret.records = <<>>)

\* C2 witness: a critical read error after a row had been accepted
C2_Witness ==
    /\ pc = "returned"
    /\ ret.err = "critical"
    /\ Len(records) >= 1

\* C9: the line number of every warning, and of a critical read error, is the
\* physical line of the offending row in the file.
C9_LineNumberIsPhysicalLine ==
    /\ \A i \in 1..Len(diags) : diags[i].line = diags[i].at
    /\ (pc = "returned" /\ ret.err = "critical") => ret.errLine = ret.at

\* C10: when ParseCSV has returned, the file has been closed exactly once if the
\* open succeeded and never if it failed; it is not closed before the return.
C10_ClosedExactlyOnce ==
    /\ pc = "returned" => closeCount = (IF fileExists THEN 1 ELSE 0)
    /\ pc # "returned" => closeCount = 0

\* C10 witness: a successful return after a soft skip, with the file closed
C10_Witness ==
    /\ pc = "returned"
    /\ ret.err = "none"
    /\ Len(diags) >= 1
    /\ closeCount = 1

(***************************************************************************)
(* AnalyzeData properties (specification SpecAnalyze).                     *)
(***************************************************************************)

\* C3: MaxQuantitySoldUnits is the maximum over the products of the records of
\* the product's summed quantity, for every record sequence.
C3_MaxIsTrueMaximum ==
    apc = "returned" => result.MaxQuantitySoldUnits = TrueMax(input)

\* C4: for non-empty input, MostPopularProduct is the product of some input record.
C4_MostPopularInInput ==
    (apc = "returned" /\ input # <<>>) => result.MostPopularProduct \in KeysOf(input)

\* C5 as stated: with non-negative quantities, MostPopularProduct is empty iff
\* TotalTransactions is 0 iff MaxQuantitySoldUnits is 0.
C5_EmptyIffZero ==
    (apc = "returned" /\ NonNegative(input)) =>
        /\ (result.MostPopularProduct = <<>>) <=> (result.TotalTransactions = 0)
        /\ (result.TotalTransactions = 0) <=> (result.MaxQuantitySoldUnits = 0)

\* C5 amended: with non-negative quantities, TotalTransactions = 0 implies that
\* MostPopularProduct is empty and MaxQuantitySoldUnits is 0; the converses hold
\* when in addition every quantity is positive and every product key is non-empty.
C5_ZeroImpliesEmpty ==
    (apc = "returned" /\ NonNegative(input)) =>
        /\ (result.TotalTransactions = 0) =>
              (result.MostPopularProduct = <<>> /\ result.MaxQuantitySoldUnits = 0)
        /\ (AllPositive(input) /\ <<>> \notin KeysOf(input)) =>
              /\ (result.MostPopularProduct = <<>>) => (result.TotalTransactions = 0)
              /\ (result.MaxQuantitySoldUnits = 0) => (result.TotalTransactions = 0)

\* C5 witness: two products with non-empty keys and positive quantities
C5_Witness ==
    /\ apc = "returned"
    /\ AllPositive(input)
    /\ <<>> \notin KeysOf(input)
    /\ Cardinality(KeysOf(input)) = 2
    /\ result.MostPopularProduct # <<>>

\* C6: TotalTransactions is the number of records, and TotalRevenue is the sum,
\* in input order, of quantity times price of the records consumed so far (of
\* all records once AnalyzeData has returned).
C6_CountAndRevenue ==
    apc # "start" =>
        /\ result.TotalTransactions = Len(input)
        /\ result.TotalRevenue = F(SumRevenue(SubSeq(input, 1, idx - 1)))
        /\ apc = "returned" => idx = Len(input) + 1

\* C6 witness: three records of different products with a non-zero revenue
C6_Witness ==
    /\ apc = "returned"
    /\ Len(input) = 3
    /\ Cardinality(KeysOf(input)) = 3
    /\ result.TotalRevenue.v # 0

\* C7: AnalyzeData never gets stuck before it returns, and on no records it returns
\* TotalTransactions 0, TotalRevenue 0.0, MostPopularProduct "" and MaxQuantitySoldUnits 0.
C7_EmptyInput ==
    /\ apc # "returned" => ENABLED NextAnalyze
    /\ (apc = "returned" /\ input = <<>>) =>
          result = [TotalTransactions |-> 0, TotalRevenue |-> F(0),
                    MostPopularProduct |-> <<>>, MaxQuantitySoldUnits |-> 0]

\* C7 witness: AnalyzeData has returned on the empty sequence
C7_Witness ==
    /\ apc = "returned"
    /\ input = <<>>
    /\ order = <<>>

\* C8: in every traversal order, MostPopularProduct is the first product reached
\* whose summed quantity equals the final maximum, and when exactly one product
\* achieves a positive maximum it is the result.
C8_FirstReachedWins ==
    apc = "returned" =>
        /\ Hits # {} => result.MostPopularProduct = order[Least(Hits)]
        /\ \A p \in KeysOf(input) :
             (/\ SumFor(p, input) > 0
              /\ \A q \in KeysOf(input) \ {p} : SumFor(q, input) < SumFor(p, input))
             => result.MostPopularProduct = p
====
